---- MODULE Spec2Model ----
(***************************************************************************)
(* Model of the server supervisor of the Claude PM desktop shell           *)
(* (apps/desktop/src-tauri/src/lib.rs): the mutex-guarded Option<Child>    *)
(* slot SERVER_PROCESS, start_server, stop_server, restart_server,         *)
(* get_server_status, the locators find_npm and get_server_path, and the   *)
(* processes around them (the spawned children, an unrelated process that  *)
(* may hold the port).                                                     *)
(*                                                                         *)
(* Threads: "main" executes run() (start_server, then the event loop, whose*)
(* window-destroyed handler calls stop_server); the command threads        *)
(* execute the commands restart_server and get_server_status.  One step of *)
(* a thread is one interaction with shared state (the port, the file       *)
(* system, the process table, the mutex, the slot).                        *)
(***************************************************************************)
EXTENDS Integers, Sequences, FiniteSets, TLC

\* ------------------------------------------------------------------ bounds
\* How many restart_server commands the UI issues in one run of the app.
MaxRestarts == 2

\* How many entries $HOME/.nvm/versions/node holds at most.
MaxVersions == 2

\* ------------------------------------------------------- program constants
\* let port: u16 = 4847
Port == 4847
\* Option::None of the slot (and of a thread's local `child`): no child id.
None == 0

Main == "main"
Commands == {"c1", "c2"}
Threads == {Main} \cup Commands

\* Every start_server call spawns at most one child: run()'s, and one per
\* restart_server.
MaxChildren == MaxRestarts + 1
Children == 1..MaxChildren

VARIABLES
    server,     \* SERVER_PROCESS: None or the id of the Child it holds
    lock,       \* the Mutex of SERVER_PROCESS: "free" or the thread holding it
    child,      \* process table: child id -> "unborn" | "running" | "killed" | "exited"
    listener,   \* the spawned child bound to 127.0.0.1:4847, or None
    ext,        \* TRUE when a process the supervisor did not spawn is bound to the port
    fs,         \* the file system and environment the locators read
    pc,         \* each thread's position
    local,      \* each thread's local `child` (start_server, between spawn and store)
    result,     \* what each thread's last start_server / restart_server returned
    status,     \* what the last get_server_status returned
    restarts,   \* restart_server commands issued so far
    stopped,    \* each thread: the child its last stop_server killed and waited for
    stoppedListening \* the children that held the port when stop_server killed them

vars == <<server, lock, child, listener, ext, fs, pc, local, result, status,
          restarts, stopped, stoppedListening>>

\* ---------------------------------------------------------------- locators
\* A file system / environment layout, as far as find_npm and
\* get_server_path read it.
\*   which     outcome of `which npm`: "error" (cannot run), "fail" (non-zero
\*             status), "empty" (success, empty output), "path" (success)
\*   common    which of the three common_paths exist (indices 1..3)
\*   home      HOME is set
\*   pinned    $HOME/.nvm/versions/node/v20.18.0/bin/npm exists
\*   versions  the entries of $HOME/.nvm/versions/node in read_dir order:
\*             TRUE when <entry>/bin/npm exists (<<>> when read_dir fails)
\*   override  CLAUDE_PM_SERVER_PATH: "unset" or the state of the path
\*   hardcoded state of $HOME/Desktop/projects/claudePM/server
\*   exe       current_exe() succeeds and has a parent
\*   rel       state of the three paths_to_try
\* A path state is "missing", "nomanifest" (exists, no package.json in it)
\* or "manifest" (exists and contains package.json).
PathStates == {"missing", "nomanifest", "manifest"}

NotFound == [kind |-> "none", idx |-> 0]

RECURSIVE FirstCommon(_, _)
FirstCommon(f, i) ==
    IF i > 3 THEN 0
    ELSE IF i \in f.common THEN i
    ELSE FirstCommon(f, i + 1)

RECURSIVE FirstVersion(_, _)
FirstVersion(f, i) ==
    IF i > Len(f.versions) THEN 0
    ELSE IF f.versions[i] THEN i
    ELSE FirstVersion(f, i + 1)

\* Mutant: a relative candidate is accepted as soon as it exists.
RECURSIVE FirstRelative_exists(_, _)
FirstRelative_exists(f, i) ==
    IF i > 3 THEN 0
    ELSE IF f.rel[i] # "missing" THEN i
    ELSE FirstRelative_exists(f, i + 1)

RECURSIVE FirstRelative(_, _)
FirstRelative(f, i) ==
    IF i > 3 THEN 0
    ELSE IF f.rel[i] = "manifest" THEN i
    ELSE FirstRelative(f, i + 1)

\* Mutant: the version-manager directory is searched before the common
\* install locations.
find_npm_nvmfirst(f) ==
    IF f.which = "path" THEN [kind |-> "which", idx |-> 0]
    ELSE IF f.home /\ f.pinned THEN [kind |-> "pinned", idx |-> 0]
    ELSE IF f.home /\ FirstVersion(f, 1) # 0
         THEN [kind |-> "scan", idx |-> FirstVersion(f, 1)]
    ELSE IF FirstCommon(f, 1) # 0 THEN [kind |-> "common", idx |-> FirstCommon(f, 1)]
    ELSE NotFound

find_npm(f) ==
    IF f.which = "path" THEN [kind |-> "which", idx |-> 0]
    ELSE IF FirstCommon(f, 1) # 0 THEN [kind |-> "common", idx |-> FirstCommon(f, 1)]
    ELSE IF f.home /\ f.pinned THEN [kind |-> "pinned", idx |-> 0]
    ELSE IF f.home /\ FirstVersion(f, 1) # 0
         THEN [kind |-> "scan", idx |-> FirstVersion(f, 1)]
    ELSE NotFound

\* Mutant: the hardcoded project path is tried before the override.
get_server_path_hardcodedfirst(f) ==
    IF f.home /\ f.hardcoded # "missing" THEN [kind |-> "hardcoded", idx |-> 0]
    ELSE IF f.override \notin {"unset", "missing"} THEN [kind |-> "override", idx |-> 0]
    ELSE IF f.exe /\ FirstRelative(f, 1) # 0
         THEN [kind |-> "relative", idx |-> FirstRelative(f, 1)]
    ELSE NotFound

get_server_path(f) ==
    IF f.override \notin {"unset", "missing"} THEN [kind |-> "override", idx |-> 0]
    ELSE IF f.home /\ f.hardcoded # "missing" THEN [kind |-> "hardcoded", idx |-> 0]
    ELSE IF f.exe /\ FirstRelative(f, 1) # 0
         THEN [kind |-> "relative", idx |-> FirstRelative(f, 1)]
    ELSE NotFound

\* The layouts the supervisor is run under: nothing installed anywhere, and
\* then npm and / or the server project present.
BareLayout ==
    [which |-> "fail", common |-> {}, home |-> TRUE, pinned |-> FALSE,
     versions |-> <<>>, override |-> "unset", hardcoded |-> "missing",
     exe |-> TRUE, rel |-> [i \in 1..3 |-> "missing"]]

FsLayouts ==
    { [[BareLayout EXCEPT !.common = c] EXCEPT !.hardcoded = h] :
        c \in {{}, {2}}, h \in {"missing", "manifest"} }

\* Every layout of the toolchain locations (the server project in place), and
\* every layout of the server locations (npm in place).
BoolSeqs(n) == UNION {[1..k -> BOOLEAN] : k \in 0..n}

NpmLayouts ==
    { [BareLayout EXCEPT !.which = w, !.common = c, !.home = h, !.pinned = p,
                         !.versions = v, !.hardcoded = "manifest"] :
        w \in {"error", "fail", "empty", "path"}, c \in SUBSET (1..3),
        h \in BOOLEAN, p \in BOOLEAN, v \in BoolSeqs(MaxVersions) }

ServerLayouts ==
    { [BareLayout EXCEPT !.common = {2}, !.override = o, !.hardcoded = hc,
                         !.home = h, !.exe = e, !.rel = r] :
        o \in PathStates \cup {"unset"}, hc \in PathStates, h \in BOOLEAN,
        e \in BOOLEAN, r \in [1..3 -> PathStates] }

\* ------------------------------------------------------------ health probe
\* Some process is bound to 127.0.0.1:4847 and accepts connections.
PortBusy == listener # None \/ ext

\* Mutant: the probe sees only a listener the supervisor spawned itself.
is_server_running_owned(port) ==
    port = Port /\ listener # None

\* TcpStream::connect("127.0.0.1:<port>").is_ok()
is_server_running(port) ==
    port = Port /\ PortBusy

\* ------------------------------------------------------------------- state
Init ==
    /\ server = None
    /\ lock = "free"
    /\ child = [c \in Children |-> "unborn"]
    /\ listener = None
    /\ ext \in BOOLEAN
    /\ fs \in FsLayouts
    /\ pc = [t \in Threads |-> IF t = Main THEN "start_probe" ELSE "idle"]
    /\ local = [t \in Threads |-> None]
    /\ result = [t \in Threads |-> "none"]
    /\ status = "none"
    /\ restarts = 0
    /\ stopped = [t \in Threads |-> None]
    /\ stoppedListening = {}

\* Where a thread continues when its start_server returns: run() goes on to
\* the event loop, restart_server returns to the command dispatcher.
AfterStart(t) == IF t = Main THEN "event_loop" ELSE "idle"

\* Where a thread continues when its stop_server returns: the window is
\* destroyed and the app exits, restart_server goes on to its sleep.
AfterStop(t) == IF t = Main THEN "exited" ELSE "sleep"

Return(t, r) ==
    /\ pc' = [pc EXCEPT ![t] = AfterStart(t)]
    /\ result' = [result EXCEPT ![t] = r]

\* The id the next spawned process gets.
NextChild == CHOOSE c \in Children :
    /\ child[c] = "unborn"
    /\ \A d \in Children : d < c => child[d] # "unborn"

\* ------------------------------------------------------------ start_server
\* Mutant: start_server takes the lock before its probe and keeps it.
StartProbe_locked(t) ==
    /\ pc[t] = "start_probe"
    /\ lock = "free"
    /\ IF is_server_running(Port)
       THEN Return(t, "Ok") /\ UNCHANGED lock
       ELSE /\ pc' = [pc EXCEPT ![t] = "find_npm"]
            /\ lock' = t
            /\ UNCHANGED result
    /\ UNCHANGED <<server, child, listener, ext, fs, local, status,
                   restarts, stopped, stoppedListening>>

StartProbe(t) ==
    /\ pc[t] = "start_probe"
    /\ IF is_server_running(Port)
       THEN Return(t, "Ok")
       ELSE /\ pc' = [pc EXCEPT ![t] = "find_npm"]
            /\ UNCHANGED result
    /\ UNCHANGED <<server, lock, child, listener, ext, fs, local, status,
                   restarts, stopped, stoppedListening>>

\* Mutant: the server directory is looked up before the toolchain.
StartFindNpm_dirfirst(t) ==
    /\ pc[t] = "find_npm"
    /\ IF get_server_path(fs) = NotFound
       THEN Return(t, "ServerDirectoryNotFound")
       ELSE IF find_npm(fs) = NotFound
       THEN Return(t, "ToolchainNotFound")
       ELSE /\ pc' = [pc EXCEPT ![t] = "get_server_path"]
            /\ UNCHANGED result
    /\ UNCHANGED <<server, lock, child, listener, ext, fs, local, status,
                   restarts, stopped, stoppedListening>>

StartFindNpm(t) ==
    /\ pc[t] = "find_npm"
    /\ IF find_npm(fs) = NotFound
       THEN Return(t, "ToolchainNotFound")
       ELSE /\ pc' = [pc EXCEPT ![t] = "get_server_path"]
            /\ UNCHANGED result
    /\ UNCHANGED <<server, lock, child, listener, ext, fs, local, status,
                   restarts, stopped, stoppedListening>>

StartGetServerPath(t) ==
    /\ pc[t] = "get_server_path"
    /\ IF get_server_path(fs) = NotFound
       THEN Return(t, "ServerDirectoryNotFound")
       ELSE /\ pc' = [pc EXCEPT ![t] = "spawn"]
            /\ UNCHANGED result
    /\ UNCHANGED <<server, lock, child, listener, ext, fs, local, status,
                   restarts, stopped, stoppedListening>>

\* Command::spawn() succeeds: a new process runs, the thread holds its Child.
StartSpawn(t) ==
    /\ pc[t] = "spawn"
    /\ \E c \in Children : child[c] = "unborn"
    /\ child' = [child EXCEPT ![NextChild] = "running"]
    /\ local' = [local EXCEPT ![t] = NextChild]
    /\ pc' = [pc EXCEPT ![t] = "start_lock"]
    /\ UNCHANGED <<server, lock, listener, ext, fs, result, status, restarts,
                   stopped, stoppedListening>>

\* Mutant: an error return after the process was created.
StartSpawnFails_leak(t) ==
    /\ pc[t] = "spawn"
    /\ \E c \in Children : child[c] = "unborn"
    /\ child' = [child EXCEPT ![NextChild] = "running"]
    /\ Return(t, "SpawnFailed")
    /\ UNCHANGED <<server, lock, listener, ext, fs, local, status, restarts,
                   stopped, stoppedListening>>

\* Command::spawn() fails (the operating system refuses): no process.
StartSpawnFails(t) ==
    /\ pc[t] = "spawn"
    /\ Return(t, "SpawnFailed")
    /\ UNCHANGED <<server, lock, child, listener, ext, fs, local, status,
                   restarts, stopped, stoppedListening>>

\* Mutant: start_server assigns the slot without taking the lock.
StartLock_unlocked(t) ==
    /\ pc[t] = "start_lock"
    /\ server' = local[t]
    /\ local' = [local EXCEPT ![t] = None]
    /\ Return(t, "Ok")
    /\ UNCHANGED <<lock, child, listener, ext, fs, status, restarts, stopped,
                   stoppedListening>>

StartLock(t) ==
    /\ pc[t] = "start_lock"
    /\ lock = "free"
    /\ lock' = t
    /\ pc' = [pc EXCEPT ![t] = "start_store"]
    /\ UNCHANGED <<server, child, listener, ext, fs, local, result, status,
                   restarts, stopped, stoppedListening>>

\* Mutant: start_server returns Ok without assigning the slot.
StartStore_drops(t) ==
    /\ pc[t] = "start_store"
    /\ lock = t
    /\ local' = [local EXCEPT ![t] = None]
    /\ lock' = "free"
    /\ Return(t, "Ok")
    /\ UNCHANGED <<server, child, listener, ext, fs, status, restarts, stopped,
                   stoppedListening>>

\* *server = Some(child); Ok(()) -- the guard is dropped on return.  The
\* Child the slot held before is dropped, which neither kills nor reaps it.
StartStore(t) ==
    /\ pc[t] = "start_store"
    /\ lock = t
    /\ server' = local[t]
    /\ local' = [local EXCEPT ![t] = None]
    /\ lock' = "free"
    /\ Return(t, "Ok")
    /\ UNCHANGED <<child, listener, ext, fs, status, restarts, stopped,
                   stoppedListening>>

\* ------------------------------------------------------------- stop_server
\* Mutant: with no handle held, stop_server terminates whatever holds the port.
StopLock_killsPortHolder(t) ==
    /\ pc[t] = "stop_lock"
    /\ lock = "free"
    /\ lock' = t
    /\ pc' = [pc EXCEPT ![t] = IF server # None THEN "stop_kill" ELSE "stop_clear"]
    /\ stopped' = [stopped EXCEPT ![t] = None]
    /\ ext' = IF server = None THEN FALSE ELSE ext
    /\ UNCHANGED <<server, child, listener, fs, local, result, status,
                   restarts, stoppedListening>>

StopLock(t) ==
    /\ pc[t] = "stop_lock"
    /\ lock = "free"
    /\ lock' = t
    /\ pc' = [pc EXCEPT ![t] = IF server # None THEN "stop_kill" ELSE "stop_clear"]
    /\ stopped' = [stopped EXCEPT ![t] = None]
    /\ UNCHANGED <<server, child, listener, ext, fs, local, result, status,
                   restarts, stoppedListening>>

\* child.kill(): SIGKILL to a process that has not exited; the result is
\* ignored.  The process exits later (ChildDies).
StopKill(t) ==
    /\ pc[t] = "stop_kill"
    /\ lock = t
    /\ child' = [child EXCEPT ![server] =
                    IF child[server] = "running" THEN "killed" ELSE child[server]]
    /\ pc' = [pc EXCEPT ![t] = "stop_wait"]
    /\ stoppedListening' = IF child[server] = "running" /\ listener = server
                           THEN stoppedListening \cup {server}
                           ELSE stoppedListening
    /\ UNCHANGED <<server, lock, listener, ext, fs, local, result, status,
                   restarts, stopped>>

\* Mutant: stop_server does not wait for the killed process to exit.
StopWait_nowait(t) ==
    /\ pc[t] = "stop_wait"
    /\ lock = t
    /\ stopped' = [stopped EXCEPT ![t] = server]
    /\ pc' = [pc EXCEPT ![t] = "stop_clear"]
    /\ UNCHANGED <<server, lock, child, listener, ext, fs, local, result,
                   status, restarts, stoppedListening>>

\* child.wait(): blocks until the process has exited; the result is ignored.
StopWait(t) ==
    /\ pc[t] = "stop_wait"
    /\ lock = t
    /\ child[server] = "exited"
    /\ stopped' = [stopped EXCEPT ![t] = server]
    /\ pc' = [pc EXCEPT ![t] = "stop_clear"]
    /\ UNCHANGED <<server, lock, child, listener, ext, fs, local, result,
                   status, restarts, stoppedListening>>

\* Mutant: the slot is not cleared.
StopClear_keeps(t) ==
    /\ pc[t] = "stop_clear"
    /\ lock = t
    /\ lock' = "free"
    /\ pc' = [pc EXCEPT ![t] = AfterStop(t)]
    /\ UNCHANGED <<server, child, listener, ext, fs, local, result, status,
                   restarts, stopped, stoppedListening>>

\* *server = None; the guard is dropped at the end of the if-let block.
StopClear(t) ==
    /\ pc[t] = "stop_clear"
    /\ lock = t
    /\ server' = None
    /\ lock' = "free"
    /\ pc' = [pc EXCEPT ![t] = AfterStop(t)]
    /\ UNCHANGED <<child, listener, ext, fs, local, result, status, restarts,
                   stopped, stoppedListening>>

\* ---------------------------------------------------------- restart_server
\* The UI invokes the command while the window is alive.
RestartInvoke(t) ==
    /\ t \in Commands
    /\ pc[t] = "idle"
    /\ pc[Main] = "event_loop"
    /\ restarts < MaxRestarts
    /\ restarts' = restarts + 1
    /\ pc' = [pc EXCEPT ![t] = "stop_lock"]
    /\ result' = [result EXCEPT ![t] = "pending"]
    /\ UNCHANGED <<server, lock, child, listener, ext, fs, local, status,
                   stopped, stoppedListening>>

\* Mutant: restart_server returns after the sleep without calling
\* start_server.
RestartSleep_nostart(t) ==
    /\ pc[t] = "sleep"
    /\ pc' = [pc EXCEPT ![t] = "idle"]
    /\ result' = [result EXCEPT ![t] = "Ok"]
    /\ UNCHANGED <<server, lock, child, listener, ext, fs, local, status,
                   restarts, stopped, stoppedListening>>

\* std::thread::sleep(500 ms), then start_server().
RestartSleep(t) ==
    /\ pc[t] = "sleep"
    /\ pc' = [pc EXCEPT ![t] = "start_probe"]
    /\ UNCHANGED <<server, lock, child, listener, ext, fs, local, result,
                   status, restarts, stopped, stoppedListening>>

\* ------------------------------------------------------- get_server_status
\* Mutant: the status is read off the handle slot.
get_server_status_slot ==
    IF server # None THEN "running" ELSE "stopped"

get_server_status ==
    IF is_server_running(Port) THEN "running" ELSE "stopped"

\* The UI invokes the command while the window is alive.
StatusInvoke(t) ==
    /\ t \in Commands
    /\ pc[t] = "idle"
    /\ pc[Main] = "event_loop"
    /\ pc' = [pc EXCEPT ![t] = "status_probe"]
    /\ UNCHANGED <<server, lock, child, listener, ext, fs, local, result,
                   status, restarts, stopped, stoppedListening>>

Status(t) ==
    /\ pc[t] = "status_probe"
    /\ status' = get_server_status
    /\ pc' = [pc EXCEPT ![t] = "idle"]
    /\ UNCHANGED <<server, lock, child, listener, ext, fs, local, result,
                   restarts, stopped, stoppedListening>>

\* ------------------------------------------------------- run: window event
\* tauri::WindowEvent::Destroyed => stop_server()
WindowDestroyed ==
    /\ pc[Main] = "event_loop"
    /\ pc' = [pc EXCEPT ![Main] = "stop_lock"]
    /\ UNCHANGED <<server, lock, child, listener, ext, fs, local, result,
                   status, restarts, stopped, stoppedListening>>

\* ------------------------------------------------------------- environment
\* A spawned server binds the port once it is free.
ChildBinds(c) ==
    /\ child[c] = "running"
    /\ ~PortBusy
    /\ listener' = c
    /\ UNCHANGED <<server, lock, child, ext, fs, pc, local, result, status,
                   restarts, stopped, stoppedListening>>

\* A spawned process exits on its own (crash, failed bind, npm error).
ChildExits(c) ==
    /\ child[c] = "running"
    /\ child' = [child EXCEPT ![c] = "exited"]
    /\ listener' = IF listener = c THEN None ELSE listener
    /\ UNCHANGED <<server, lock, ext, fs, pc, local, result, status, restarts,
                   stopped, stoppedListening>>

\* A killed process exits; its sockets are closed.
ChildDies(c) ==
    /\ child[c] = "killed"
    /\ child' = [child EXCEPT ![c] = "exited"]
    /\ listener' = IF listener = c THEN None ELSE listener
    /\ UNCHANGED <<server, lock, ext, fs, pc, local, result, status, restarts,
                   stopped, stoppedListening>>

\* A process the supervisor did not spawn binds the port, or releases it.
ExtBinds ==
    /\ ~PortBusy
    /\ ext' = TRUE
    /\ UNCHANGED <<server, lock, child, listener, fs, pc, local, result,
                   status, restarts, stopped, stoppedListening>>

ExtReleases ==
    /\ ext
    /\ ext' = FALSE
    /\ UNCHANGED <<server, lock, child, listener, fs, pc, local, result,
                   status, restarts, stopped, stoppedListening>>

\* ----------------------------------------------------------- specification
StartStep(t) ==
    \/ StartProbe(t)
    \/ StartFindNpm(t)
    \/ StartGetServerPath(t)
    \/ StartSpawn(t)
    \/ StartSpawnFails(t)
    \/ StartLock(t)
    \/ StartStore(t)

StopStep(t) ==
    \/ StopLock(t)
    \/ StopKill(t)
    \/ StopWait(t)
    \/ StopClear(t)

Next ==
    \/ \E t \in Threads : StartStep(t)
    \/ \E t \in Threads : StopStep(t)
    \/ \E t \in Commands : RestartInvoke(t)
    \/ \E t \in Commands : RestartSleep(t)
    \/ \E t \in Commands : StatusInvoke(t)
    \/ \E t \in Commands : Status(t)
    \/ WindowDestroyed
    \/ \E c \in Children : ChildBinds(c)
    \/ \E c \in Children : ChildExits(c)
    \/ \E c \in Children : ChildDies(c)
    \/ ExtBinds
    \/ ExtReleases

Spec == Init /\ [][Next]_vars

\* run()'s start_server up to its spawn, under every layout the locators
\* can meet.
InitLocate ==
    /\ server = None
    /\ lock = "free"
    /\ child = [c \in Children |-> "unborn"]
    /\ listener = None
    /\ ext \in BOOLEAN
    /\ fs \in NpmLayouts \cup ServerLayouts
    /\ pc = [t \in Threads |-> IF t = Main THEN "start_probe" ELSE "idle"]
    /\ local = [t \in Threads |-> None]
    /\ result = [t \in Threads |-> "none"]
    /\ status = "none"
    /\ restarts = 0
    /\ stopped = [t \in Threads |-> None]
    /\ stoppedListening = {}

NextLocate ==
    \/ StartProbe(Main)
    \/ StartFindNpm(Main)
    \/ StartGetServerPath(Main)

SpecLocate == InitLocate /\ [][NextLocate]_vars

\* The supervisor with a toolchain and a server directory that resolve, a
\* spawn that succeeds, a server that does not exit on its own and binds the
\* port when it can, a killed process that exits, and a window that stays
\* open.
InitLive ==
    /\ Init
    /\ find_npm(fs) # NotFound
    /\ get_server_path(fs) # NotFound

StartStepLive(t) ==
    \/ StartProbe(t)
    \/ StartFindNpm(t)
    \/ StartGetServerPath(t)
    \/ StartSpawn(t)
    \/ StartLock(t)
    \/ StartStore(t)

ThreadStepLive(t) ==
    \/ StartStepLive(t)
    \/ StopStep(t)
    \/ RestartSleep(t)
    \/ Status(t)

NextLive ==
    \/ \E t \in Threads : ThreadStepLive(t)
    \/ \E t \in Commands : RestartInvoke(t)
    \/ \E t \in Commands : StatusInvoke(t)
    \/ \E c \in Children : ChildBinds(c)
    \/ \E c \in Children : ChildDies(c)
    \/ ExtBinds
    \/ ExtReleases

SpecLive ==
    /\ InitLive /\ [][NextLive]_vars
    /\ \A t \in Threads : WF_vars(ThreadStepLive(t))
    /\ \A c \in Children : WF_vars(ChildBinds(c))
    /\ \A c \in Children : WF_vars(ChildDies(c))

\* ------------------------------------------------------------ vocabulary
StartPcs == {"start_probe", "find_npm", "get_server_path", "spawn",
             "start_lock", "start_store"}
StopPcs == {"stop_lock", "stop_kill", "stop_wait", "stop_clear"}
Errors == {"ToolchainNotFound", "ServerDirectoryNotFound", "SpawnFailed"}

\* The spawned children that are running (not killed, not exited).
Alive == {c \in Children : child[c] = "running"}
\* No thread is inside an operation.
Quiescent == \A t \in Commands : pc[t] = "idle"
\* Thread t's start_server takes its probe step / returns in this step.
Probes(t) == pc[t] = "start_probe" /\ pc'[t] # "start_probe"
StartReturns(t) == pc[t] \in StartPcs /\ pc'[t] = AfterStart(t)
\* Thread t takes a step of stop_server / its get_server_status returns.
StopSteps(t) == pc[t] \in StopPcs /\ pc'[t] # pc[t]
StatusReturns(t) == pc[t] = "status_probe" /\ pc'[t] # "status_probe"

TypeOK ==
    /\ server \in Children \cup {None}
    /\ lock \in Threads \cup {"free"}
    /\ child \in [Children -> {"unborn", "running", "killed", "exited"}]
    /\ listener \in Children \cup {None}
    /\ ext \in BOOLEAN
    /\ ~(ext /\ listener # None)
    /\ stoppedListening \subseteq Children

\* ------------------------------------------------------------------ claims

\* C1: in every reachable state at most one child spawned by the supervisor
\* is alive (start_server never spawns a second child while an earlier one is
\* still running).
C1_AtMostOneChildAlive == Cardinality(Alive) <= 1

\* C2: start_server is idempotent while a listener accepts connections on
\* port 4847: a call whose probe runs then returns Ok in that step, spawns no
\* child and leaves the slot (and the lock) as they were.
C2_StartIdempotent ==
    [][\A t \in Threads :
        (Probes(t) /\ (listener # None \/ ext)) =>
            /\ StartReturns(t)
            /\ result'[t] = "Ok"
            /\ server' = server
            /\ lock' = lock
            /\ child' = child
            /\ local' = local]_vars

\* Three successive start_server calls (run()'s and two restarts') have all
\* returned Ok with a listener present and no child was ever spawned.
C2_Witness ==
    /\ restarts = MaxRestarts
    /\ Quiescent
    /\ \A t \in Threads : result[t] = "Ok"
    /\ \A c \in Children : child[c] = "unborn"
    /\ server = None
    /\ ext

\* C3: once the window-destroyed stop_server has returned and every
\* operation in flight has completed, no child spawned by the supervisor is
\* still alive.
C3_NoLeakPastExit ==
    (pc[Main] = "exited" /\ Quiescent) =>
        \A c \in Children : child[c] \in {"unborn", "exited"}

C5_PortFreeBetweenStopAndSpawn ==
    /\ [](\A t \in Commands :
            (stopped[t] # None /\ pc[t] \in {"stop_clear", "sleep"} \cup StartPcs) =>
                /\ child[stopped[t]] = "exited"
                /\ listener # stopped[t]
                /\ local[t] # stopped[t])
    /\ [][\A t \in Commands :
            /\ (Probes(t) /\ ~StartReturns(t)) => (listener = None /\ ~ext)
            /\ (pc[t] = "spawn" /\ pc'[t] = "start_lock") =>
                  /\ child[local'[t]] = "unborn"
                  /\ child'[local'[t]] = "running"
                  /\ local'[t] # stopped[t]]_vars

\* A restart_server killed the owned child that held the port, and its
\* start phase has spawned the new child.
C5_Witness ==
    \E t \in Commands :
        /\ stopped[t] \in stoppedListening
        /\ pc[t] = "start_lock"
        /\ local[t] # None

\* C6: while a process the supervisor did not spawn holds port 4847 and the
\* slot is empty, start_server returns Ok without spawning, get_server_status
\* returns "running", and stop_server goes from its check straight to the
\* clear: it signals nothing, and the unrelated process keeps the port.
C6_UnrelatedListenerUntouched ==
    [][(ext /\ server = None) =>
        \A t \in Threads :
            /\ Probes(t) =>
                  /\ StartReturns(t) /\ result'[t] = "Ok"
                  /\ child' = child /\ server' = None /\ ext'
            /\ StatusReturns(t) => status' = "running" /\ ext'
            /\ StopSteps(t) =>
                  /\ pc'[t] \in {"stop_clear", AfterStop(t)}
                  /\ child' = child /\ listener' = listener
                  /\ server' = None /\ ext']_vars

\* run()'s start_server returned Ok on the unrelated listener, no child was
\* ever spawned, a status call returned "running", and the window-destroyed
\* stop_server has returned with the unrelated process still listening.
C6_Witness ==
    /\ pc[Main] = "exited"
    /\ result[Main] = "Ok"
    /\ status = "running"
    /\ \A c \in Children : child[c] = "unborn"
    /\ server = None
    /\ ext

\* C7: stop_server is idempotent: it never yields an error, with no handle
\* held it changes neither the slot nor any process, and whenever it returns
\* the slot is empty and the lock released (so a second stop_server finds no
\* handle and changes nothing).
C7_StopIdempotent ==
    [][\A t \in Threads :
        StopSteps(t) =>
            /\ result' = result
            /\ server = None =>
                  /\ server' = None /\ child' = child
                  /\ listener' = listener /\ ext' = ext
                  /\ pc'[t] \in {"stop_clear", AfterStop(t)}
            /\ pc'[t] = AfterStop(t) =>
                  server' = None /\ lock = t /\ lock' = "free"]_vars

\* A restart's stop_server killed and reaped a child, and later the
\* window-destroyed stop_server ran with no handle held and returned.
C7_Witness ==
    /\ pc[Main] = "exited"
    /\ stopped[Main] = None
    /\ \E t \in Commands : stopped[t] # None /\ pc[t] = "idle"
    /\ server = None

\* C8: whenever start_server returns an error, the error is one of
\* ToolchainNotFound, ServerDirectoryNotFound, SpawnFailed, that call has
\* spawned no child, the slot, the lock and every process are as they were,
\* and the thread is back where a start can be issued again.
C8_FailedStartChangesNothing ==
    [][\A t \in Threads :
        (StartReturns(t) /\ result'[t] # "Ok") =>
            /\ result'[t] \in Errors
            /\ local[t] = None /\ local' = local
            /\ server' = server /\ lock' = lock
            /\ child' = child /\ listener' = listener]_vars

\* run()'s start_server failed, and the retry by a restart succeeded and
\* holds the handle of the child it spawned.
C8_Witness ==
    /\ result[Main] \in Errors
    /\ \E t \in Commands : pc[t] = "idle" /\ result[t] = "Ok"
    /\ server # None
    /\ child[server] = "running"

\* C9: stop_server never blocks forever: its wait for the child is bounded,
\* so whenever a call is waiting for the child to exit it can go on (the
\* child has exited, or the wait gives up and escalates), clear the slot and
\* release the lock.
C9_StopWaitIsBounded ==
    \A t \in Threads : pc[t] = "stop_wait" => ENABLED StopStep(t)

\* ---- locators

\* The candidates of the toolchain search that match under layout f, each
\* with its priority: 1 the PATH lookup, 2 the common install locations in
\* their listed order, 3 the pinned nvm version, 4 the nvm version
\* directories in directory order.
NpmMatches(f) ==
    {[prio |-> 1, kind |-> "which", idx |-> 0] : x \in {w \in {f.which} : w = "path"}}
    \cup {[prio |-> 2, kind |-> "common", idx |-> i] : i \in f.common}
    \cup {[prio |-> 3, kind |-> "pinned", idx |-> 0] :
             x \in {b \in {f.pinned} : b /\ f.home}}
    \cup {[prio |-> 4, kind |-> "scan", idx |-> i] :
             i \in {j \in 1..Len(f.versions) : f.versions[j] /\ f.home}}

\* The state of the directory a server search result names.
DirState(f, r) ==
    IF r.kind = "override" THEN f.override
    ELSE IF r.kind = "hardcoded" THEN f.hardcoded
    ELSE f.rel[r.idx]

\* C11: find_npm returns the matching candidate of lowest priority number
\* (within a priority, the first in order), and NotFound exactly when no
\* candidate matches.
C11_FindNpmFirstMatch ==
    LET r == find_npm(fs)
        M == NpmMatches(fs)
    IN  IF M = {} THEN r = NotFound
        ELSE \E m \in M :
                /\ r = [kind |-> m.kind, idx |-> m.idx]
                /\ \A n \in M :
                      m.prio < n.prio \/ (m.prio = n.prio /\ m.idx <= n.idx)

\* With matches at priority 2 and priority 4 and none on PATH, start_server
\* has taken the priority-2 match and gone on.
C11_Witness ==
    /\ pc[Main] = "get_server_path"
    /\ fs.which # "path"
    /\ fs.common = {3}
    /\ fs.home /\ ~fs.pinned
    /\ \E i \in 1..Len(fs.versions) : fs.versions[i]
    /\ find_npm(fs) = [kind |-> "common", idx |-> 3]

\* C12: get_server_path never returns a directory that does not contain the
\* project manifest, whichever candidate it comes from.
C12_ServerPathHasManifest ==
    pc[Main] = "spawn" => DirState(fs, get_server_path(fs)) = "manifest"

\* C12 as amended: a directory get_server_path returns exists, and one found
\* relative to the executable contains the manifest; the override and the
\* hardcoded path are returned on existence alone.
C12_RelativeHasManifest ==
    pc[Main] = "spawn" =>
        LET r == get_server_path(fs)
        IN  /\ r # NotFound
            /\ DirState(fs, r) # "missing"
            /\ r.kind = "relative" => DirState(fs, r) = "manifest"
            /\ r.kind = "relative" => fs.exe

\* start_server got its directory from the third relative candidate, having
\* passed over an earlier one that exists without a manifest.
C12_Witness ==
    /\ pc[Main] = "spawn"
    /\ get_server_path(fs) = [kind |-> "relative", idx |-> 3]
    /\ fs.rel[1] = "nomanifest"

\* C13: get_server_path keeps the order override > hardcoded home path >
\* relative to the executable: an override that exists is returned whatever
\* else is valid, and without one the hardcoded path, when it exists, is
\* returned before any relative path.
C13_ServerPathPriority ==
    LET r == get_server_path(fs)
    IN  /\ fs.override \in {"nomanifest", "manifest"} => r.kind = "override"
        /\ (fs.override \in {"unset", "missing"} /\ fs.home
                /\ fs.hardcoded # "missing") => r.kind = "hardcoded"
        /\ r.kind = "relative" =>
              /\ fs.override \in {"unset", "missing"}
              /\ ~fs.home \/ fs.hardcoded = "missing"

\* The override, the hardcoded path and a relative path all hold a manifest,
\* and start_server goes on to spawn with the override.
C13_Witness ==
    /\ pc[Main] = "spawn"
    /\ fs.override = "manifest"
    /\ fs.home /\ fs.hardcoded = "manifest"
    /\ fs.exe /\ fs.rel[1] = "manifest"
    /\ get_server_path(fs).kind = "override"

\* C10: get_server_status returns "running" exactly when some process
\* listens on port 4847 and "stopped" otherwise, whatever the slot holds,
\* and changes neither the slot nor the lock nor any process.
C10_StatusIsProbe ==
    [][\A t \in Threads :
        StatusReturns(t) =>
            /\ status' = IF listener # None \/ ext THEN "running" ELSE "stopped"
            /\ server' = server /\ lock' = lock /\ child' = child]_vars

\* The status call returned "stopped" while the slot holds the handle of a
\* running child that has not bound the port.
C10_Witness ==
    /\ status = "stopped"
    /\ server # None
    /\ child[server] = "running"
    /\ ~PortBusy
\* ------------------------------------------------------- the handle slot
\* The step in which start_server assigns the slot.
Stores(t) == pc[t] = "start_store" /\ pc'[t] = AfterStart(t)

\* The step in which stop_server assigns None to the slot.
Clears(t) == pc[t] = "stop_clear" /\ pc'[t] = AfterStop(t)

\* C14: whenever start_server stores the handle of the child it spawned, the
\* slot it writes to is empty: no handle that is still in the slot is ever
\* overwritten.
C14_StoreIntoClearedSlot ==
    [][\A t \in Threads : Stores(t) => server = None]_vars

\* C15 as stated: in every reachable state a handle in the slot refers to a
\* child that is alive.
C15_SlotOnlyWhileRunning ==
    server # None => child[server] = "running"

\* C15, amended: a handle in the slot refers to a child that start_server
\* spawned and that no stop_server has waited for, except the stop_server that
\* is about to clear it; the child is running, or it has exited on its own (the
\* handle then stays until the next stop_server), or the stop_server that
\* holds the lock has just killed it.
C15_SlotHoldsUnreapedChild ==
    server # None =>
        /\ child[server] # "unborn"
        /\ \A t \in Threads : stopped[t] = server => pc[t] = "stop_clear"
        /\ child[server] = "killed" =>
               \E t \in Threads : lock = t /\ pc[t] = "stop_wait"
        /\ (\E t \in Threads : pc[t] = "stop_clear" /\ stopped[t] = server)
               => child[server] = "exited"

\* A child has exited on its own, its handle is still in the slot, and no
\* operation is under way.
C15_Witness ==
    /\ server # None
    /\ child[server] = "exited"
    /\ lock = "free"
    /\ pc[Main] = "event_loop"
    /\ Quiescent
    /\ restarts > 0

\* ---------------------------------------------------------- restart_server
\* C16: restart_server runs stop_server, the delay and start_server and returns
\* that start_server's result; when it returns an error, its stop_server has
\* waited for the child it found and the slot is empty.
C16_FailedRestartLeavesEmptySlot ==
    [][\A t \in Commands :
          (StartReturns(t) /\ result'[t] \in Errors) =>
              /\ stopped[t] # None => child[stopped[t]] = "exited"
              /\ server' = None]_vars

\* ------------------------------------------------------------ start_server
\* The step in which start_server creates a process.
Spawns(t) == pc[t] = "spawn" /\ pc'[t] = "start_lock"

\* The children a step creates.
Born == {c \in Children : child[c] = "unborn" /\ child'[c] # "unborn"}

\* The directories get_server_path accepts in the layout f.
ServerDirs(f) ==
    {[kind |-> "override", idx |-> 0] : x \in {o \in {f.override} : o \notin {"unset", "missing"}}}
    \cup {[kind |-> "hardcoded", idx |-> 0] :
             x \in {h \in {f.hardcoded} : h # "missing" /\ f.home}}
    \cup {[kind |-> "relative", idx |-> i] :
             i \in {j \in 1..3 : f.rel[j] = "manifest" /\ f.exe}}

\* C17: whenever start_server returns Ok, either its probe found a listener on
\* the port (and the call spawned nothing and left the slot as it was), or the
\* call spawned exactly one child and the slot holds that child's handle at
\* the return.
C17_OkMeansListenerOrStoredChild ==
    [][\A t \in Threads :
          /\ (StartReturns(t) /\ result'[t] = "Ok") =>
                 \/ /\ pc[t] = "start_probe"
                    /\ PortBusy
                    /\ local[t] = None
                    /\ server' = server /\ child' = child
                 \/ /\ pc[t] = "start_store"
                    /\ local[t] \in Children
                    /\ child[local[t]] # "unborn"
                    /\ server' = local[t]
                    /\ child' = child
          /\ Spawns(t) =>
                 /\ local[t] = None
                 /\ Cardinality(Born) = 1
                 /\ Born = {local'[t]}
          /\ (pc[t] \in StartPcs /\ pc'[t] # pc[t] /\ ~Spawns(t)) =>
                 /\ Born = {}
                 /\ local'[t] \in {local[t], None}]_vars

\* A restart returned Ok and the slot holds the child its start_server
\* spawned; the other command has never run.
C17_Witness ==
    /\ pc["c1"] = "idle" /\ result["c1"] = "Ok"
    /\ pc["c2"] = "idle" /\ result["c2"] = "none"
    /\ server = 2
    /\ child[2] = "running"

\* C18: start_server runs probe, toolchain lookup, server-directory lookup,
\* spawn, store in that order: a child is spawned only after a probe that
\* found no listener and two lookups that succeeded; with both lookups failing
\* the error is the toolchain one; and a probe that finds a listener returns
\* Ok whatever the lookups would give.
C18_StartStepOrder ==
    [][\A t \in Threads :
          /\ (pc'[t] = "find_npm" /\ pc[t] # "find_npm") =>
                 pc[t] = "start_probe" /\ ~PortBusy
          /\ (pc'[t] = "get_server_path" /\ pc[t] # "get_server_path") =>
                 pc[t] = "find_npm" /\ NpmMatches(fs) # {}
          /\ (pc'[t] = "spawn" /\ pc[t] # "spawn") =>
                 pc[t] = "get_server_path" /\ ServerDirs(fs) # {}
          /\ (pc'[t] = "start_lock" /\ pc[t] # "start_lock") => pc[t] = "spawn"
          /\ (pc'[t] = "start_store" /\ pc[t] # "start_store") =>
                 pc[t] = "start_lock"
          /\ Born # {} => \E u \in Threads : Spawns(u)
          /\ Spawns(t) => NpmMatches(fs) # {} /\ ServerDirs(fs) # {}
          /\ (StartReturns(t) /\ NpmMatches(fs) = {} /\ ServerDirs(fs) = {}) =>
                 \/ pc[t] = "start_probe" /\ PortBusy /\ result'[t] = "Ok"
                 \/ pc[t] = "find_npm" /\ result'[t] = "ToolchainNotFound"
          /\ (pc[t] = "start_probe" /\ pc'[t] # "start_probe" /\ PortBusy) =>
                 StartReturns(t) /\ result'[t] = "Ok"]_vars

\* Neither npm nor the server directory exists: run()'s start_server returned
\* Ok on a listener it found, and a later restart, the listener gone, returned
\* the toolchain error.
C18_Witness ==
    /\ NpmMatches(fs) = {}
    /\ ServerDirs(fs) = {}
    /\ result[Main] = "Ok"
    /\ \E t \in Commands : pc[t] = "idle" /\ result[t] = "ToolchainNotFound"

\* ------------------------------------------------------------------ locking
\* The supervisor with every thread scheduled fairly and every killed process
\* exiting.
ThreadStep(t) ==
    \/ StartStep(t)
    \/ StopStep(t)
    \/ RestartSleep(t)
    \/ Status(t)

SpecFair ==
    /\ Init /\ [][Next]_vars
    /\ \A t \in Threads : WF_vars(ThreadStep(t))
    /\ \A c \in Children : WF_vars(ChildDies(c))

\* The positions at which a thread holds the lock.
LockedPcs == {"start_store", "stop_kill", "stop_wait", "stop_clear"}

\* The thread is inside start_server, stop_server or restart_server.
InCall(t) == pc[t] \in StartPcs \cup StopPcs \cup {"sleep"}

\* C19: a handle that stop_server removes from the slot is the one it found
\* when it took the lock, and it has called kill and wait on it: the child has
\* exited before the slot is cleared, however start_server's assignments
\* interleave.
C19_StopClearsWhatItReaped ==
    [][\A t \in Threads :
          /\ (Clears(t) /\ server # None) =>
                 /\ stopped[t] = server
                 /\ child[server] = "exited"
          /\ (pc[t] \in {"stop_kill", "stop_wait", "stop_clear"}) =>
                 server' \in {server, None}]_vars

\* stop_server has waited for the child in the slot and is about to clear it
\* while a start_server that has spawned waits for the lock.
C19_Witness ==
    \E t, u \in Threads :
        /\ pc[t] = "stop_clear"
        /\ server # None
        /\ stopped[t] = server
        /\ pc[u] = "start_lock"
        /\ local[u] # None

\* C20: start_server holds the lock only for the assignment of the slot: a
\* thread holds the lock exactly at the assignment or inside stop_server,
\* never at a probe, a lookup or a spawn; a thread waiting for the lock does
\* not hold it; a stop_server at the lock goes on whenever no thread is at a
\* locked position; and with fair scheduling every call returns.
C20_LockOnlyForStoreAndNoDeadlock ==
    /\ [](\A t \in Threads :
             /\ (lock = t) <=> (pc[t] \in LockedPcs)
             /\ pc[t] \in {"start_lock", "stop_lock"} => lock # t
             /\ (/\ pc[t] = "stop_lock"
                 /\ \A u \in Threads : pc[u] \notin LockedPcs)
                    => ENABLED StopLock(t))
    /\ \A t \in Threads : InCall(t) ~> ~InCall(t)

\* A stop_server holds the lock and has killed the child while a concurrent
\* start_server is at its lookups or its spawn.
C20_Witness ==
    \E t, u \in Threads :
        /\ pc[t] \in {"stop_kill", "stop_wait"}
        /\ lock = t
        /\ pc[u] \in {"find_npm", "get_server_path", "spawn"}

====
